---- MODULE Spec2Model ----
(***************************************************************************)
(* cu2qu: approximation of cubic Bezier curves by quadratic splines        *)
(* (Lib/cu2qu/__init__.py).                                                *)
(*                                                                         *)
(* Numbers.  The program computes on Python numbers.  The model computes   *)
(* on exact rationals <<num, den>> (den > 0, lowest terms), so every       *)
(* division, interpolation and comparison is the one the code writes,      *)
(* evaluated without rounding.  A Euclidean length hypot(dx, dy) is kept   *)
(* as the vector <<|dx|*L, |dy|*L, L>> whose length it is (L the common    *)
(* denominator), and two lengths are ordered by their squares, computed    *)
(* on multi-limb naturals since the squares exceed the checker's integers. *)
(***************************************************************************)
EXTENDS Integers, Sequences, FiniteSets

\* ------------------------------------------------------------------------
\* Program constants
\* ------------------------------------------------------------------------
MAX_N == 100

TOTAL_STEPS == 20

None == "None"

\* ------------------------------------------------------------------------
\* Exact rational arithmetic (Python's +, -, *, / on numbers)
\* ------------------------------------------------------------------------
Abs(x) == IF x < 0 THEN -x ELSE x

RECURSIVE Gcd(_, _)
Gcd(a, b) == IF b = 0 THEN a ELSE Gcd(b, a % b)

Rat(n, d) ==
    LET g == Gcd(Abs(n), Abs(d))
        s == IF d < 0 THEN -1 ELSE 1
    IN  <<s * (n \div g), Abs(d) \div g>>

R(k) == <<k, 1>>

RAdd(a, b) ==
    LET g == Gcd(a[2], b[2])
    IN  Rat(a[1] * (b[2] \div g) + b[1] * (a[2] \div g), (a[2] \div g) * b[2])

RNeg(a) == <<-a[1], a[2]>>

RSub(a, b) == RAdd(a, RNeg(b))

RMul(a, b) ==
    LET g1 == Gcd(Abs(a[1]), b[2])
        g2 == Gcd(Abs(b[1]), a[2])
    IN  IF a[1] = 0 \/ b[1] = 0 THEN <<0, 1>>
        ELSE <<(a[1] \div g1) * (b[1] \div g2), (a[2] \div g2) * (b[2] \div g1)>>

\* a / b for b # 0 (the caller tests b = 0: Python raises ZeroDivisionError)
RDiv(a, b) ==
    RMul(a, IF b[1] < 0 THEN <<-b[2], -b[1]>> ELSE <<b[2], b[1]>>)

RIsZero(a) == a[1] = 0

\* ------------------------------------------------------------------------
\* Multi-limb naturals (little-endian, no leading zero limb): the squares
\* that order two lengths.
\* ------------------------------------------------------------------------
BASE == 10000

RECURSIVE BigOf(_)
BigOf(k) == IF k = 0 THEN <<>> ELSE <<k % BASE>> \o BigOf(k \div BASE)

RECURSIVE BigAddC(_, _, _)
BigAddC(a, b, c) ==
    IF a = <<>> /\ b = <<>> THEN (IF c = 0 THEN <<>> ELSE <<c>>)
    ELSE LET x == IF a = <<>> THEN 0 ELSE a[1]
             y == IF b = <<>> THEN 0 ELSE b[1]
             s == x + y + c
         IN  <<s % BASE>> \o BigAddC(IF a = <<>> THEN <<>> ELSE Tail(a),
                                     IF b = <<>> THEN <<>> ELSE Tail(b),
                                     s \div BASE)

BigAdd(a, b) == BigAddC(a, b, 0)

RECURSIVE BigMulLimb(_, _, _)
BigMulLimb(a, k, c) ==
    IF a = <<>> THEN BigOf(c)
    ELSE LET s == a[1] * k + c
         IN  <<s % BASE>> \o BigMulLimb(Tail(a), k, s \div BASE)

BigShift(a) == IF a = <<>> THEN <<>> ELSE <<0>> \o a

RECURSIVE BigMul(_, _)
BigMul(a, b) ==
    IF a = <<>> \/ b = <<>> THEN <<>>
    ELSE BigAdd(IF b[1] = 0 THEN <<>> ELSE BigMulLimb(a, b[1], 0),
                BigShift(BigMul(a, Tail(b))))

RECURSIVE BigLeqFrom(_, _, _)
BigLeqFrom(a, b, i) ==
    IF i = 0 THEN TRUE
    ELSE IF a[i] # b[i] THEN a[i] < b[i]
    ELSE BigLeqFrom(a, b, i - 1)

BigLeq(a, b) ==
    IF Len(a) # Len(b) THEN Len(a) < Len(b) ELSE BigLeqFrom(a, b, Len(a))

BigSq(k) == BigMul(BigOf(k), BigOf(k))

\* ------------------------------------------------------------------------
\* Lengths: <<X, Y, L>> stands for hypot(X / L, Y / L), X, Y >= 0, L > 0
\* ------------------------------------------------------------------------
Zero == <<0, 0, 1>>

\* hypot(dx, dy) of two rationals
hypot(dx, dy) ==
    LET g == Gcd(dx[2], dy[2])
        L == (dx[2] \div g) * dy[2]
    IN  <<Abs(dx[1]) * (L \div dx[2]), Abs(dy[1]) * (L \div dy[2]), L>>

\* e1^2 * L2^2 <= e2^2 * L1^2
LenLeq(e1, e2) ==
    BigLeq(BigMul(BigAdd(BigSq(e1[1]), BigSq(e1[2])), BigSq(e2[3])),
           BigMul(BigAdd(BigSq(e2[1]), BigSq(e2[2])), BigSq(e1[3])))

\* error <= max_err, max_err a rational of either sign, error a length
ErrLeq(error, max_err) ==
    /\ max_err[1] >= 0
    /\ LenLeq(error, <<max_err[1], 0, max_err[2]>>)

\* Python's max(a, b): b when b > a, else a
max(a, b) == IF LenLeq(b, a) THEN a ELSE b

\* ------------------------------------------------------------------------
\* Geometry primitives.  A point or vector is <<x, y>>, x and y rationals;
\* a curve is a sequence of points (1-indexed: p[1] is the code's p[0]).
\* ------------------------------------------------------------------------
vector(p1, p2) == <<RSub(p2[1], p1[1]), RSub(p2[2], p1[2])>>

\* A slip that moves the point against the vector.
translateBack(p, v) == <<RSub(p[1], v[1]), RSub(p[2], v[2])>>

translate(p, v) == <<RAdd(p[1], v[1]), RAdd(p[2], v[2])>>

scale(v, k) == <<RMul(v[1], k), RMul(v[2], k)>>

dist(p1, p2) == hypot(RSub(p1[1], p2[1]), RSub(p1[2], p2[2]))

dot(v1, v2) == RAdd(RMul(v1[1], v2[1]), RMul(v1[2], v2[2]))

lerp(a, b, t) == RAdd(RMul(a, RSub(R(1), t)), RMul(b, t))

lerp_pt(p1, p2, t) == <<lerp(p1[1], p2[1], t), lerp(p1[2], p2[2], t)>>

quadratic_bezier_at(p, t) ==
    <<lerp(lerp(p[1][1], p[2][1], t), lerp(p[2][1], p[3][1], t), t),
      lerp(lerp(p[1][2], p[2][2], t), lerp(p[2][2], p[3][2], t), t)>>

cubic_bezier_at(p, t) ==
    <<lerp(lerp(lerp(p[1][1], p[2][1], t), lerp(p[2][1], p[3][1], t), t),
           lerp(lerp(p[2][1], p[3][1], t), lerp(p[3][1], p[4][1], t), t), t),
      lerp(lerp(lerp(p[1][2], p[2][2], t), lerp(p[2][2], p[3][2], t), t),
           lerp(lerp(p[2][2], p[3][2], t), lerp(p[3][2], p[4][2], t), t), t)>>

\* cubic_approx(p, t): the triple p[0], lerp_pt(p1, p2, t), p[3]
cubic_approx(p, t) ==
    LET p1 == lerp_pt(p[1], p[2], <<3, 2>>)
        p2 == lerp_pt(p[4], p[3], <<3, 2>>)
    IN  <<p[1], lerp_pt(p1, p2, t), p[4]>>

\* ------------------------------------------------------------------------
\* Tangent intersection
\* ------------------------------------------------------------------------
ValueError == "ValueError"

\* A slip that swaps the components without the sign.
perpReflected(ab) == <<ab[2], ab[1]>>

\* p = -ab[1], ab[0]
perp(ab) == <<RNeg(ab[2]), ab[1]>>

\* A slip that forgets the rotation of ab.
DenominatorUnrotated(p) == dot(vector(p[1], p[2]), vector(p[3], p[4]))

\* dot(p, cd), the divisor of calc_intersect
Denominator(p) == dot(perp(vector(p[1], p[2])), vector(p[3], p[4]))

calc_intersect(p) ==
    LET a  == p[1]
        b  == p[2]
        c  == p[3]
        d  == p[4]
        ab == vector(a, b)
        cd == vector(c, d)
        pp == perp(ab)
    IN  IF RIsZero(Denominator(p)) THEN ValueError
        ELSE translate(c, scale(cd, RDiv(dot(pp, vector(c, a)), Denominator(p))))

\* ------------------------------------------------------------------------
\* fontTools.misc.bezierTools.splitCubicAtT, as the library computes it:
\* the polynomial a t^3 + b t^2 + c t + d re-parametrised on each [t1, t2].
\* ------------------------------------------------------------------------
calcCubicParameters(pt1, pt2, pt3, pt4) ==
    LET c == scale(vector(pt1, pt2), R(3))
        b == vector(c, scale(vector(pt2, pt3), R(3)))
        a == vector(b, vector(c, vector(pt1, pt4)))
    IN  <<a, b, c, pt1>>

calcCubicPoints(a, b, c, d) ==
    LET third == <<1, 3>>
        q2 == translate(scale(c, third), d)
        q3 == translate(scale(translate(b, c), third), q2)
        q4 == translate(translate(translate(a, d), c), b)
    IN  <<d, q2, q3, q4>>

splitSegment(k, t1, t2) ==
    LET a     == k[1]
        b     == k[2]
        c     == k[3]
        d     == k[4]
        delta == RSub(t2, t1)
        d2    == RMul(delta, delta)
        d3    == RMul(delta, d2)
        t1_2  == RMul(t1, t1)
        t1_3  == RMul(t1, t1_2)
        a1    == scale(a, d3)
        b1    == scale(translate(scale(a, RMul(R(3), t1)), b), d2)
        c1    == scale(translate(translate(scale(b, RMul(R(2), t1)), c),
                                 scale(a, RMul(R(3), t1_2))), delta)
        d1    == translate(translate(translate(scale(a, t1_3), scale(b, t1_2)),
                                     scale(c, t1)), d)
    IN  calcCubicPoints(a1, b1, c1, d1)

splitCubicAtT(pt1, pt2, pt3, pt4, ts) ==
    LET k  == calcCubicParameters(pt1, pt2, pt3, pt4)
        tx == <<R(0)>> \o ts \o <<R(1)>>
    IN  [i \in 1..(Len(ts) + 1) |-> splitSegment(k, tx[i], tx[i + 1])]

\* ------------------------------------------------------------------------
\* Spline constructor
\* ------------------------------------------------------------------------
\* A slip that closes the spline on the last control point.
SplineOfOpen(p, controls) == <<p[1]>> \o controls \o <<p[3]>>

\* [p[0]] + controls + [p[3]]  (the code's p[3] is the model's p[4])
SplineOf(p, controls) == <<p[1]>> \o controls \o <<p[4]>>

cubic_approx_spline(p, n) ==
    IF n = 1
    THEN LET p1 == calc_intersect(p)
         IN  IF p1 = ValueError THEN None ELSE SplineOf(p, <<p1>>)
    ELSE LET ts       == [i \in 1..(n - 1) |-> Rat(i, n)]
             segments == splitCubicAtT(p[1], p[2], p[3], p[4], ts)
         IN  SplineOf(p, [i \in 1..Len(segments) |->
                             cubic_approx(segments[i], Rat(i - 1, n - 1))[2]])

\* ------------------------------------------------------------------------
\* Error sampler
\* ------------------------------------------------------------------------
\* A slip that always takes at least one sample per segment.
StepsAtLeastOne(n) == IF TOTAL_STEPS \div n = 0 THEN 1 ELSE TOTAL_STEPS \div n

\* steps = TOTAL_STEPS // n
Steps(n) == TOTAL_STEPS \div n

\* for j in range(steps), from j on
RECURSIVE SampleLoop(_, _, _, _, _, _, _)
SampleLoop(bezier, segment, i, n, steps, j, error) ==
    IF j >= steps THEN error
    ELSE LET p1 == cubic_bezier_at(bezier,
                       RDiv(RAdd(Rat(j, steps), R(i - 1)), R(n)))
             p2 == quadratic_bezier_at(segment, Rat(j, steps))
             e2 == max(error, dist(p1, p2))
         IN  \* e2[3] > 0 always; the test evaluates e2 before the next
             \* iteration, as the assignment error = max(...) does
             IF e2[3] = 0 THEN e2
             ELSE SampleLoop(bezier, segment, i, n, steps, j + 1, e2)

\* for i in range(1, n + 1), from i on; prev is the segment of i - 1
RECURSIVE SegmentLoop(_, _, _, _, _, _, _)
SegmentLoop(bezier, spline, n, steps, i, prev, error) ==
    IF i > n THEN error
    ELSE LET segment == <<IF i = 1 THEN spline[1] ELSE prev[3],
                          spline[i + 1],
                          IF i = n THEN spline[i + 2]
                          ELSE lerp_pt(spline[i + 1], spline[i + 2], <<1, 2>>)>>
             e2 == SampleLoop(bezier, segment, i, n, steps, 0, error)
         IN  \* as above: e2 is evaluated before the next iteration
             IF e2[3] = 0 THEN e2
             ELSE SegmentLoop(bezier, spline, n, steps, i + 1, segment, e2)

curve_spline_dist(bezier, spline) ==
    LET n == Len(spline) - 2
    IN  SegmentLoop(bezier, spline, n, Steps(n), 1, <<>>, Zero)

\* ------------------------------------------------------------------------
\* Inputs of the model
\* ------------------------------------------------------------------------
MaxCoord == 1

MaxCurves == 2

TolDen == 16

Generous == 4

Pt(x, y) == <<R(x), R(y)>>

\* the grid of control points: MaxCoord wide, one high
Points == {Pt(x, y) : x \in 0..MaxCoord, y \in 0..1}

\* the cubics of the grid that start at the origin
Cubics == {<<Pt(0, 0), b, c, d>> : b \in Points, c \in Points, d \in Points}

\* the arch from the origin up to (0, 1) and down to (1, 0), second control
\* point q
Arch(q) == <<Pt(0, 0), Pt(0, 1), q, Pt(1, 0)>>

\* the curves of a batch
BatchCubics == {Arch(Pt(1, 1)), Arch(Pt(0, 1)), <<Pt(0, 0), Pt(1, 0), Pt(0, 0), Pt(1, 0)>>}

\* a fine and a generous tolerance: searches of a few iterations
EasyTolerances == {Rat(1, TolDen), R(Generous)}

\* zero and a negative tolerance: searches that run to the last sampled
\* segment count or to the cap
LongTolerances == {R(-1), R(0)}

\* the curves searched under the long tolerances: two arches (true cubics)
\* and a degree-elevated quadratic
LongCubics == {Arch(Pt(1, 1)), Arch(Pt(0, 0)),
               <<Pt(0, 0), Pt(1, 1), Pt(1, 1), Pt(0, 0)>>}

\* the batch searched under the long tolerances, and its prefixes
LongBatch == <<Arch(Pt(1, 1)), Arch(Pt(0, 0))>>

\* ------------------------------------------------------------------------
\* Search driver: the frames of curve_to_quadratic and curves_to_quadratic
\* ------------------------------------------------------------------------
VARIABLES
    call,        \* which entry point runs
    p, max_err,  \* arguments of curve_to_quadratic
    curves, max_errors,  \* arguments of curves_to_quadratic
    n,           \* the loop variable (0: not yet assigned)
    spline, error,       \* locals of curve_to_quadratic
    splines, errors,     \* locals of curves_to_quadratic
    pc,          \* "for", "return", "returned", "raised"
    result,      \* the returned pair
    exc          \* the raised ApproxNotFoundError

vars == <<call, p, max_err, curves, max_errors, n, spline, error, splines,
          errors, pc, result, exc>>

args == <<call, p, max_err, curves, max_errors>>

\* ApproxNotFoundError(curve, error): self.curve, self.error
ApproxNotFoundError(curve, err) == [curve |-> curve, error |-> err]

\* A slip that advances the segment count by two.
NextNSkipping(k) == k + 2

\* for n in range(1, MAX_N + 1): the value after k (k = 0 before the loop)
NextN(k) == k + 1

\* A slip that accepts every measured spline.
WithinToleranceAlways(err, tol) == TRUE

\* error <= max_err
WithinTolerance(err, tol) == ErrLeq(err, tol)

\* all(splines): a spline is a non-empty list, None is false
all_splines(ss) == \A i \in 1..Len(ss) : ss[i] # None

\* A slip that accepts the batch when one curve is within its tolerance.
any_within(es, ms) == \E i \in 1..Len(es) : WithinTolerance(es[i], ms[i])

\* all(err <= max_err for err, max_err in zip(errors, max_errors))
all_within(es, ms) == \A i \in 1..Len(es) : WithinTolerance(es[i], ms[i])

\* s is None or error > max_err
Offends(s, err, tol) == s = None \/ (err # None /\ ~ErrLeq(err, tol))

\* A slip that reports the last offending curve.
LastOffender(ss, es, ms) ==
    CHOOSE k \in 1..Len(ss) :
        /\ Offends(ss[k], es[k], ms[k])
        /\ \A j \in (k + 1)..Len(ss) : ~Offends(ss[j], es[j], ms[j])

\* the first curve, in zip order, that makes the loop of the else clause raise
FirstOffender(ss, es, ms) ==
    CHOOSE k \in 1..Len(ss) :
        /\ Offends(ss[k], es[k], ms[k])
        /\ \A j \in 1..(k - 1) : ~Offends(ss[j], es[j], ms[j])

Init ==
    /\ n = 0
    /\ pc = "for"
    /\ result = None
    /\ exc = None
    /\ \/ /\ call = "curve_to_quadratic"
          /\ \/ p \in Cubics /\ max_err \in EasyTolerances
             \/ p \in LongCubics /\ max_err \in LongTolerances
          /\ curves = <<>>
          /\ max_errors = <<>>
          /\ spline = None
          /\ error = None
          /\ splines = <<>>
          /\ errors = <<>>
       \/ /\ call = "curves_to_quadratic"
          /\ p = None
          /\ max_err = None
          /\ \/ \E k \in 0..MaxCurves :
                   /\ curves \in [1..k -> BatchCubics]
                   /\ max_errors \in [1..k -> EasyTolerances]
             \/ \E k \in 1..Len(LongBatch) :
                   /\ curves = SubSeq(LongBatch, 1, k)
                   /\ max_errors \in [1..k -> LongTolerances]
          /\ splines = [i \in 1..Len(curves) |-> None]
          /\ errors = [i \in 1..Len(curves) |-> None]
          /\ spline = None
          /\ error = None

\* one iteration of the loop of curve_to_quadratic
CurveIterate ==
    /\ call = "curve_to_quadratic"
    /\ pc = "for"
    /\ n < MAX_N
    /\ n' = NextN(n)
    /\ spline' = cubic_approx_spline(p, n')
    /\ IF spline' = None
       THEN error' = error /\ pc' = "for"
       ELSE /\ error' = curve_spline_dist(p, spline')
            /\ pc' = IF WithinTolerance(error', max_err) THEN "return" ELSE "for"
    /\ UNCHANGED <<args, splines, errors, result, exc>>

\* the else clause of the loop: raise ApproxNotFoundError(p, error)
CurveElse ==
    /\ call = "curve_to_quadratic"
    /\ pc = "for"
    /\ n >= MAX_N
    /\ exc' = ApproxNotFoundError(p, error)
    /\ pc' = "raised"
    /\ UNCHANGED <<args, n, spline, error, splines, errors, result>>

\* return spline, error
CurveReturn ==
    /\ call = "curve_to_quadratic"
    /\ pc = "return"
    /\ result' = <<spline, error>>
    /\ pc' = "returned"
    /\ UNCHANGED <<args, n, spline, error, splines, errors, exc>>

\* one iteration of the loop of curves_to_quadratic
CurvesIterate ==
    /\ call = "curves_to_quadratic"
    /\ pc = "for"
    /\ n < MAX_N
    /\ n' = NextN(n)
    /\ splines' = [i \in 1..Len(curves) |-> cubic_approx_spline(curves[i], n')]
    /\ IF ~all_splines(splines')
       THEN errors' = errors /\ pc' = "for"
       ELSE /\ errors' = [i \in 1..Len(curves) |->
                             curve_spline_dist(curves[i], splines'[i])]
            /\ pc' = IF all_within(errors', max_errors) THEN "return" ELSE "for"
    /\ UNCHANGED <<args, spline, error, result, exc>>

\* the else clause: raise for the first curve without a spline or over its
\* tolerance; with none, fall through to the return
CurvesElse ==
    /\ call = "curves_to_quadratic"
    /\ pc = "for"
    /\ n >= MAX_N
    /\ IF \E k \in 1..Len(curves) : Offends(splines[k], errors[k], max_errors[k])
       THEN LET k == FirstOffender(splines, errors, max_errors)
            IN  /\ exc' = ApproxNotFoundError(curves[k], errors[k])
                /\ pc' = "raised"
       ELSE /\ exc' = exc
            /\ pc' = "return"
    /\ UNCHANGED <<args, n, spline, error, splines, errors, result>>

\* return splines, errors
CurvesReturn ==
    /\ call = "curves_to_quadratic"
    /\ pc = "return"
    /\ result' = <<splines, errors>>
    /\ pc' = "returned"
    /\ UNCHANGED <<args, n, spline, error, splines, errors, exc>>

Next ==
    \/ CurveIterate
    \/ CurveElse
    \/ CurveReturn
    \/ CurvesIterate
    \/ CurvesElse
    \/ CurvesReturn

Spec == Init /\ [][Next]_vars

\* ------------------------------------------------------------------------
\* Vocabulary of the properties
\* ------------------------------------------------------------------------
Single == call = "curve_to_quadratic"

Batch == call = "curves_to_quadratic"

Finished == pc \in {"return", "returned", "raised"}

\* u x v, the z component of the cross product
Cross(u, v) == RSub(RMul(u[1], v[2]), RMul(u[2], v[1]))

\* the end tangent lines of c (through c[1], c[2] and through c[3], c[4])
\* are parallel, coincident, or one control vector has length zero
Parallel(c) == RIsZero(Cross(vector(c[1], c[2]), vector(c[3], c[4])))

\* the four control points lie on one line
Collinear(c) ==
    /\ RIsZero(Cross(vector(c[1], c[2]), vector(c[1], c[3])))
    /\ RIsZero(Cross(vector(c[1], c[2]), vector(c[1], c[4])))
    /\ RIsZero(Cross(vector(c[1], c[3]), vector(c[1], c[4])))

\* c has a non-zero cubic term p3 - 3 p2 + 3 p1 - p0: no spline of
\* quadratics reproduces it
Curved(c) ==
    LET third == vector(scale(vector(c[2], c[3]), R(3)), vector(c[1], c[4]))
    IN  ~(RIsZero(third[1]) /\ RIsZero(third[2]))

\* the candidate of curve c at segment count k misses tolerance tol
Misses(c, k, tol) ==
    \/ cubic_approx_spline(c, k) = None
    \/ ~ErrLeq(curve_spline_dist(c, cubic_approx_spline(c, k)), tol)

\* ------------------------------------------------------------------------
\* Properties
\* ------------------------------------------------------------------------

\* C1: whenever curve_to_quadratic returns (spline, error), spline is not
\* None, error is curve_spline_dist(p, spline) of that very spline, and
\* error <= max_err.
C1_ReturnWithinTolerance ==
    (Single /\ pc = "returned") =>
        /\ result[1] # None
        /\ result[2] = curve_spline_dist(p, result[1])
        /\ ErrLeq(result[2], max_err)

C1_Witness ==
    /\ Single
    /\ pc = "returned"
    /\ n = 3
    /\ result[2] # Zero
    /\ max_err = Rat(1, TolDen)

\* C2: the spline curve_to_quadratic returns has n segments, n in 1..MAX_N,
\* and every smaller segment count has no spline or an error over max_err.
C2_SmallestSegmentCount ==
    (Single /\ pc = "returned") =>
        /\ n \in 1..MAX_N
        /\ Len(result[1]) = n + 2
        /\ result[1] = cubic_approx_spline(p, n)
        /\ \A k \in 1..(n - 1) : Misses(p, k, max_err)

\* a return at n = 3 with a non-zero error, after a measured n = 1
C2_Witness ==
    /\ Single
    /\ pc = "returned"
    /\ n = 3
    /\ cubic_approx_spline(p, 1) # None
    /\ result[2] # Zero

\* C3: the splines curves_to_quadratic returns all have the same n segments,
\* splines[k] and errors[k] belong to curves[k] with errors[k] within
\* max_errors[k], and at every smaller segment count some curve has no
\* spline or is over its tolerance.
C3_SmallestSharedSegmentCount ==
    (Batch /\ pc = "returned") =>
        /\ n \in 1..MAX_N
        /\ Len(result[1]) = Len(curves)
        /\ Len(result[2]) = Len(curves)
        /\ \A k \in 1..Len(curves) :
              /\ result[1][k] # None
              /\ Len(result[1][k]) = n + 2
              /\ result[1][k] = cubic_approx_spline(curves[k], n)
              /\ result[2][k] = curve_spline_dist(curves[k], result[1][k])
              /\ ErrLeq(result[2][k], max_errors[k])
        /\ \A m \in 1..(n - 1) :
              \E k \in 1..Len(curves) : Misses(curves[k], m, max_errors[k])

\* two curves returned at n = 2: one has no spline at n = 1, the other is
\* within its tolerance there
C3_Witness ==
    /\ Batch
    /\ pc = "returned"
    /\ Len(curves) = 2
    /\ n = 2
    /\ \E j, k \in 1..2 :
          /\ cubic_approx_spline(curves[j], 1) = None
          /\ ~Misses(curves[k], 1, max_errors[k])

\* the spline s of curve c with m segments runs from c's start to c's end
Interpolates(s, c, m) == Len(s) = m + 2 /\ s[1] = c[1] /\ s[m + 2] = c[4]

\* C4: every spline cubic_approx_spline builds for n segments has n + 2
\* points, the first p[0] and the last p[3]; so has every returned spline.
C4_EndpointsExact ==
    /\ (Single /\ spline # None) => Interpolates(spline, p, n)
    /\ (Single /\ pc = "returned") => Interpolates(result[1], p, n)
    /\ (Batch /\ n >= 1) =>
          \A k \in 1..Len(curves) :
              splines[k] # None => Interpolates(splines[k], curves[k], n)
    /\ (Batch /\ pc = "returned") =>
          \A k \in 1..Len(curves) : Interpolates(result[1][k], curves[k], n)

\* a returned spline of three segments whose end is not its last control
\* point's neighbour
C4_Witness ==
    /\ Single
    /\ pc = "returned"
    /\ Len(result[1]) = 5
    /\ p[3] # p[4]

\* C5: for a curved cubic and max_err = 0, curve_to_quadratic tries every
\* n up to MAX_N and raises ApproxNotFoundError with the curve and the error
\* of the last n; it returns no spline.
C5_ZeroToleranceExhausts ==
    (Single /\ Curved(p) /\ max_err = R(0) /\ Finished) =>
        /\ pc = "raised"
        /\ n = MAX_N
        /\ exc = ApproxNotFoundError(p,
                     curve_spline_dist(p, cubic_approx_spline(p, MAX_N)))

\* C6, as stated: a cubic with collinear control points and a generous
\* tolerance is returned at n = 1, as a spline of 3 points.
C6_StraightLineAtOne ==
    (Single /\ Collinear(p) /\ max_err = R(Generous) /\ Finished) =>
        /\ pc \in {"return", "returned"}
        /\ n = 1
        /\ Len(spline) = 3

\* C6, amended: a cubic with collinear control points has no spline at n = 1
\* and, with a tolerance of at least the sampled error of its two-segment
\* spline, is returned at n = 2, as a spline of 4 points.
C6_StraightLineAtTwo ==
    /\ (Single /\ Collinear(p) /\ n = 1) => (spline = None /\ pc = "for")
    /\ (Single /\ Collinear(p) /\ Finished
          /\ ErrLeq(curve_spline_dist(p, cubic_approx_spline(p, 2)), max_err)) =>
          /\ pc \in {"return", "returned"}
          /\ n = 2
          /\ Len(spline) = 4

C6_Witness ==
    /\ Single
    /\ Collinear(p)
    /\ p[1] # p[4]
    /\ max_err = R(Generous)
    /\ pc = "returned"
    /\ Len(result[1]) = 4

\* C7: for a cubic with parallel end tangent lines cubic_approx_spline(p, 1)
\* is None and nothing is raised; curve_to_quadratic goes on to n = 2, so a
\* spline it returns has at least 4 points; for n >= 2 there is always a
\* spline.
C7_ParallelTangentsSkipOne ==
    /\ (Single /\ Parallel(p) /\ n = 1) => (spline = None /\ pc = "for")
    /\ (Single /\ Parallel(p) /\ pc = "returned") =>
          (n >= 2 /\ Len(result[1]) >= 4)
    /\ (Single /\ n >= 2) => spline # None
    /\ (Batch /\ n >= 2) => \A k \in 1..Len(curves) : splines[k] # None
    /\ (Batch /\ n = 1) =>
          \A k \in 1..Len(curves) : Parallel(curves[k]) => splines[k] = None

\* a curve with parallel tangents, not collinear, returned at n = 2
C7_Witness ==
    /\ Single
    /\ Parallel(p)
    /\ ~Collinear(p)
    /\ pc = "returned"
    /\ n = 2

\* curve k of the batch has no spline or is over its tolerance at MAX_N
OffendsAtCap(k) == Misses(curves[k], MAX_N, max_errors[k])

\* C8: when curves_to_quadratic raises, it has tried n = MAX_N and returned
\* nothing; the error names the first curve, in input order, without a
\* spline or over its tolerance at MAX_N, with that curve's error at MAX_N.
C8_FirstOffenderReported ==
    /\ (Batch /\ pc = "raised") =>
          /\ n = MAX_N
          /\ result = None
          /\ \E k \in 1..Len(curves) :
                /\ OffendsAtCap(k)
                /\ \A j \in 1..(k - 1) : ~OffendsAtCap(j)
                /\ exc.curve = curves[k]
                /\ exc.error = curve_spline_dist(curves[k],
                                   cubic_approx_spline(curves[k], MAX_N))
    /\ (Batch /\ pc \in {"return", "returned"}) =>
          all_within(errors, max_errors)

\* the second curve is reported, the first being within its tolerance
C8_Witness ==
    /\ Batch
    /\ pc = "raised"
    /\ Len(curves) = 2
    /\ curves[1] # curves[2]
    /\ exc.curve = curves[2]

\* C9: when the lines through a, b and through c, d are not parallel (and
\* a # b, c # d), calc_intersect returns the point on both lines; it raises
\* ValueError (seen as the absent spline of n = 1) exactly when the lines
\* are parallel.
C9_IntersectionOnBothLines ==
    (Single /\ n = 1) =>
        IF Parallel(p)
        THEN spline = None
        ELSE /\ spline # None
             /\ RIsZero(Cross(vector(p[1], p[2]), vector(p[1], spline[2])))
             /\ RIsZero(Cross(vector(p[3], p[4]), vector(p[3], spline[2])))

\* an intersection that is none of the four control points
C9_Witness ==
    /\ Single
    /\ n = 1
    /\ spline # None
    /\ spline[2] \notin {p[1], p[2], p[3], p[4]}

\* every tolerance of the call is >= 0
NonNegative ==
    IF Single THEN max_err[1] >= 0
    ELSE \A k \in 1..Len(max_errors) : max_errors[k][1] >= 0

\* C10: with more than TOTAL_STEPS segments no sample is taken and the
\* measured error is 0; so with tolerances >= 0 both searches return by
\* n = TOTAL_STEPS + 1 and never raise, and a raise happens only with a
\* negative tolerance and reports the error 0.
C10_UnsampledBeyondTwentySegments ==
    /\ (Single /\ n > TOTAL_STEPS) => error = Zero
    /\ (Batch /\ n > TOTAL_STEPS) => \A k \in 1..Len(curves) : errors[k] = Zero
    /\ NonNegative => (pc # "raised" /\ n <= TOTAL_STEPS + 1)
    /\ (Single /\ pc = "returned") => Len(result[1]) <= TOTAL_STEPS + 3
    /\ pc = "raised" => (~NonNegative /\ exc.error = Zero)

\* a curve returned at the first unsampled segment count
C10_Witness ==
    /\ Single
    /\ max_err = R(0)
    /\ pc = "returned"
    /\ n = TOTAL_STEPS + 1
    /\ Curved(p)

====
